---- MODULE Spec2Model ----
(***************************************************************************)
(* Model of src/source/parse-page.js: the class htmlParser, a cursor over  *)
(* a character buffer with snapshot/backtrack and the grammar productions  *)
(* built on it.                                                            *)
(*                                                                         *)
(* Text is a sequence of one-character strings.  Location objects live in  *)
(* a heap and are named by references (indices into the heap), because     *)
(* JavaScript objects are shared by reference: advance() writes one field  *)
(* of the live object in place, while getCurrLocation() and backtrack()    *)
(* build new objects.                                                      *)
(***************************************************************************)
EXTENDS Integers, Sequences, FiniteSets, TLC

\* ------------------------------------------------------------------ bounds
\* longest raw source text built from the whole alphabet
MaxLen == 3

\* most attributes in a source text that is written as an opening tag
MaxAttrs == 1

\* ------------------------------------------------------- characters, text
CR == "\r"
LF == "\n"
TAB == "\t"
SPACE == " "
QUOTE == "\""
APOS == "'"

\* null, as the value of __char at end of input
NullChar == "null"

\* the characters source texts are built from
Alphabet == {"<", "a", SPACE, LF, QUOTE, "="}

\* the characters of the source texts that try the line endings
LineChars == {CR, LF, "a"}

\* every character the model knows
AllChars ==
  {TAB, LF, CR, SPACE, QUOTE, APOS, "/", "1", "<", "=", ">",
   "@", "A", "B", "X", "Z", "[", "_", "a", "b", "x", "z", "{"}

\* String.prototype.charCodeAt(0) on the characters used here
charCodeAt(c) ==
  CASE c = TAB -> 9
    [] c = LF -> 10
    [] c = CR -> 13
    [] c = SPACE -> 32
    [] c = QUOTE -> 34
    [] c = APOS -> 39
    [] c = "/" -> 47
    [] c = "1" -> 49
    [] c = "<" -> 60
    [] c = "=" -> 61
    [] c = ">" -> 62
    [] c = "@" -> 64
    [] c = "A" -> 65
    [] c = "B" -> 66
    [] c = "X" -> 88
    [] c = "Z" -> 90
    [] c = "[" -> 91
    [] c = "_" -> 95
    [] c = "a" -> 97
    [] c = "b" -> 98
    [] c = "x" -> 120
    [] c = "z" -> 122
    [] c = "{" -> 123

\* the character with a given code, for the codes above
fromCharCode(n) ==
  CHOOSE c \in AllChars : charCodeAt(c) = n

\* String.prototype.toLowerCase, one character: A-Z move up by 32
toLowerCaseChar(c) ==
  IF charCodeAt(c) >= 65 /\ charCodeAt(c) <= 90
  THEN fromCharCode(charCodeAt(c) + 32)
  ELSE c

\* String.prototype.toLowerCase
toLowerCase(s) == [i \in 1..Len(s) |-> toLowerCaseChar(s[i])]

\* String.prototype.indexOf(char) !== -1, for a one-character needle
Contains(s, c) == \E i \in 1..Len(s) : s[i] = c

\* Array.prototype.slice(start, end) on a sequence (0-based, end exclusive)
Slice(s, start, end) ==
  LET n == Len(s)
      from == IF start < 0 THEN (IF n + start < 0 THEN 0 ELSE n + start)
              ELSE (IF start > n THEN n ELSE start)
      to == IF end < 0 THEN (IF n + end < 0 THEN 0 ELSE n + end)
            ELSE (IF end > n THEN n ELSE end)
  IN  IF to <= from THEN <<>> ELSE SubSeq(s, from + 1, to)

\* replaceAll('\r\n', '\n') that misses the pair and changes nothing
ReplaceCRLFMissed(s) == s

\* srcContent.replaceAll('\r\n', '\n')
RECURSIVE ReplaceCRLF(_)
ReplaceCRLF(s) ==
  IF s = <<>> THEN <<>>
  ELSE IF Len(s) >= 2 /\ s[1] = CR /\ s[2] = LF
       THEN <<LF>> \o ReplaceCRLF(SubSeq(s, 3, Len(s)))
       ELSE <<s[1]>> \o ReplaceCRLF(Tail(s))

\* .replaceAll('\r', '\n')
ReplaceCR(s) == [i \in 1..Len(s) |-> IF s[i] = CR THEN LF ELSE s[i]]

\* the constructor's text normalisation and split into characters
SourceChars(srcContent) == ReplaceCR(ReplaceCRLF(srcContent))

\* all texts over a set of characters, up to a length
TextsUpTo(chars, n) == UNION {[1..k -> chars] : k \in 0..n}

\* attribute names of the opening tags
Words == {<<"a">>, <<"B">>}

\* tag names of the opening tags
TagNames == {<<"B">>}

\* one attribute as written: a space, a name, and maybe ="B"
AttrTexts ==
  {<<SPACE>> \o n : n \in Words}
    \cup {<<SPACE>> \o n \o <<"=", QUOTE, "B", QUOTE>> : n \in Words}

\* the attribute parts of up to k attributes
RECURSIVE AttrsUpTo(_)
AttrsUpTo(k) ==
  IF k = 0 THEN {<<>>}
  ELSE AttrsUpTo(k - 1)
         \cup {a \o rest : a \in AttrTexts, rest \in AttrsUpTo(k - 1)}

\* source texts written as one opening tag
TagTexts ==
  {<<"<">> \o t \o as \o <<">">> : t \in TagNames, as \in AttrsUpTo(MaxAttrs)}

\* source texts with each character in turn right after a tag name
AfterNameTexts == {<<"<", "a", c, ">">> : c \in AllChars}

\* source texts with an attribute name, '=' and no closed quoted value
AfterEqualsTexts ==
  {<<"<", "a", SPACE, "b", "=">> \o rest :
     rest \in {<<>>, <<">">>, <<"x", ">">>, <<QUOTE, "x", ">">>,
               <<APOS, "x", APOS, ">">>}}

\* the demonstration call's text in short: a tag with three attribute names
\* and no '=', separated by each of the white-space characters, then '>'
DemonstrationTexts ==
  {<<"<", "X", SPACE, "a", LF, "B", TAB, "x", ">">>}

\* the source texts a parser is constructed from
SourceTexts ==
  TextsUpTo(Alphabet, MaxLen) \cup TextsUpTo(LineChars, MaxLen)
    \cup TagTexts \cup AfterNameTexts \cup AfterEqualsTexts
    \cup DemonstrationTexts

\* ------------------------------------------------------------------ state
VARIABLES
  srcContent,   \* the text the constructor was given
  sourceChars,  \* this.__sourceChars
  heap,         \* the Location objects that are still referenced
  location,     \* this.__location, a reference into heap
  char,         \* this.__char
  oob,          \* TRUE once __sourceChars was indexed at or past __length
  saved,        \* a reference the caller got from getCurrLocation(), or 0
  savedAt,      \* the cursor as it was when saved was captured
  call          \* the last method called, the cursor before it, its result

vars == <<srcContent, sourceChars, heap, location, char, oob, saved, savedAt, call>>

\* this.__length
length == Len(sourceChars)

\* the null reference
NullRef == 0

\* the parser's mutable part, threaded through the methods
Machine == [heap |-> heap, location |-> location, char |-> char, oob |-> oob]

\* a Location object
Loc(pos, row, col) == [pos |-> pos, row |-> row, col |-> col]

\* a new object: the heap grows by it, and its reference is the new length
New(m, obj) == [m EXCEPT !.heap = Append(@, obj)]
NewRef(m) == Len(m.heap) + 1

\* ---------------------------------------------------------- cursor engine
\* __sourceChars[pos]: undefined outside 0..length-1
Undefined == "undefined"
At(pos) == IF pos + 1 \in 1..length THEN sourceChars[pos + 1] ELSE Undefined

\* the end-of-input test of readChar() with > in place of >=
readCharAtEndLate(pos) == pos > length

\* readChar(): the end-of-input test that returns null before indexing
readCharAtEnd(pos) == pos >= length

\* readChar(): the value it returns
readChar(m) ==
  LET pos == m.heap[m.location].pos
  IN  IF readCharAtEnd(pos) THEN NullChar ELSE At(pos)

\* readChar(): whether it indexes the buffer at or past length
readCharOob(m) ==
  LET pos == m.heap[m.location].pos
  IN  ~readCharAtEnd(pos) /\ pos >= length

\* getCurrPos()
getCurrPos(m) == m.heap[m.location].pos

\* getCurrLocation(): a copy of the live object; the copy is NewRef(m)
getCurrLocation(m) == New(m, m.heap[m.location])

\* getCurrChar()
getCurrChar(m) == m.char

\* getCurrCharCode()
getCurrCharCode(m) == IF m.char # NullChar THEN charCodeAt(m.char) ELSE 0

\* backtrack(loc) that takes pos from loc and keeps the live row and col
backtrackPosOnly(m, loc) ==
  LET cur == m.heap[m.location]
      m1 == New(m, Loc(m.heap[loc].pos, cur.row, cur.col))
      m2 == [m1 EXCEPT !.location = NewRef(m)]
  IN  [m2 EXCEPT !.char = readChar(m2), !.oob = @ \/ readCharOob(m2)]

\* backtrack(loc) that leaves the cached character stale
backtrackStaleChar(m, loc) ==
  LET m1 == New(m, Loc(m.heap[loc].pos, m.heap[loc].row, m.heap[loc].col))
  IN  [m1 EXCEPT !.location = NewRef(m)]

\* backtrack(loc) that makes loc itself the live object
backtrackAliased(m, loc) ==
  LET m1 == [m EXCEPT !.location = loc]
  IN  [m1 EXCEPT !.char = readChar(m1), !.oob = @ \/ readCharOob(m1)]

\* backtrack(loc): a new live object with loc's fields, then readChar()
backtrack(m, loc) ==
  LET m1 == New(m, Loc(m.heap[loc].pos, m.heap[loc].row, m.heap[loc].col))
      m2 == [m1 EXCEPT !.location = NewRef(m)]
  IN  [m2 EXCEPT !.char = readChar(m2), !.oob = @ \/ readCharOob(m2)]

\* advance() without the end-of-input test
advanceUnchecked(m) ==
  LET cur == m.heap[m.location]
      row == IF m.char = LF THEN cur.row + 1 ELSE cur.row
      col == IF m.char = LF THEN 1 ELSE cur.col + 1
      m1 == New(m, Loc(cur.pos + 1, row, col))
      m2 == [m1 EXCEPT !.location = NewRef(m)]
  IN  [m2 EXCEPT !.char = readChar(m2), !.oob = @ \/ readCharOob(m2)]

\* advance()
advance(m) ==
  LET cur == m.heap[m.location]
  IN  IF cur.pos + 1 >= length
      THEN [m EXCEPT !.heap[m.location].pos = length, !.char = NullChar]
      ELSE LET row == IF m.char = LF THEN cur.row + 1 ELSE cur.row
               col == IF m.char = LF THEN 1 ELSE cur.col + 1
               m1 == New(m, Loc(cur.pos + 1, row, col))
               m2 == [m1 EXCEPT !.location = NewRef(m)]
           IN  [m2 EXCEPT !.char = readChar(m2), !.oob = @ \/ readCharOob(m2)]

\* getNextChar(): advance(); the character is then getCurrChar()
getNextChar(m) == advance(m)

\* getNextCharCode(): advance(); the code is then getCurrCharCode()
getNextCharCode(m) == advance(m)

\* extract(start, end)
extract(start, end) == Slice(sourceChars, start, end)

\* ------------------------------------------------------------ productions
\* what a method returns: null, a text, a node or a thrown error; void
\* methods return undefined
Result(kind, text, start, end, tagName, attributes) ==
  [kind |-> kind, text |-> text, start |-> start, end |-> end,
   tagName |-> tagName, attributes |-> attributes]
Void == Result("undefined", <<>>, NullRef, NullRef, <<>>, <<>>)
Null == Result("null", <<>>, NullRef, NullRef, <<>>, <<>>)
Text(t) == Result("text", t, NullRef, NullRef, <<>>, <<>>)
Node(start, end, tagName, attributes) ==
  Result("node", <<>>, start, end, tagName, attributes)
Thrown == Result("error", <<>>, NullRef, NullRef, <<>>, <<>>)

\* !value for a value a production returned: null and '' are falsy
Falsy(r) == r.kind = "null" \/ (r.kind = "text" /\ r.text = <<>>)

\* a method's outcome: the machine after it and what it returned
Out(m, r) == [m |-> m, r |-> r]

\* the characters parseWhiteSpace accepts
WhiteSpaceChars == <<SPACE, LF, TAB>>

\* the delimiters of an attribute name with '/' left out
NameDelimitersNoSlash == <<SPACE, LF, TAB, APOS, QUOTE, "=", ">">>

\* the characters that end an attribute name
NameDelimiters == <<SPACE, LF, TAB, APOS, QUOTE, "=", "/", ">">>

\* parseWhiteSpace(): the while loop
RECURSIVE WhiteSpaceLoop(_)
WhiteSpaceLoop(m) ==
  IF getCurrChar(m) # NullChar /\ Contains(WhiteSpaceChars, getCurrChar(m))
  THEN WhiteSpaceLoop(getNextChar(m))
  ELSE m

\* parseWhiteSpace()
parseWhiteSpace(m) ==
  LET startLoc == NewRef(m)
      m1 == WhiteSpaceLoop(getCurrLocation(m))
      endLoc == NewRef(m1)
      m2 == getCurrLocation(m1)
  IN  IF m2.heap[endLoc].pos > m2.heap[startLoc].pos
      THEN Out(m2, Text(extract(m2.heap[startLoc].pos, m2.heap[endLoc].pos)))
      ELSE Out(backtrack(m2, startLoc), Null)

\* the value loop without the newline test
RECURSIVE ValueLoopOverNewline(_)
ValueLoopOverNewline(m) ==
  IF getCurrChar(m) # NullChar /\ getCurrChar(m) # QUOTE
  THEN ValueLoopOverNewline(getNextChar(m))
  ELSE m

\* parseAttributeValue(): the while loop
RECURSIVE ValueLoop(_)
ValueLoop(m) ==
  IF getCurrChar(m) # NullChar /\ getCurrChar(m) # LF /\ getCurrChar(m) # QUOTE
  THEN ValueLoop(getNextChar(m))
  ELSE m

\* parseAttributeValue()
parseAttributeValue(m) ==
  LET startLoc == NewRef(m)
      m1 == getCurrLocation(m)
  IN  IF getCurrChar(m1) # QUOTE
      THEN Out(m1, Null)
      ELSE LET m2 == getNextChar(m1)
               valueStartPos == getCurrPos(m2)
               m3 == ValueLoop(m2)
           IN  IF getCurrChar(m3) # QUOTE
               THEN Out(backtrack(m3, startLoc), Null)
               ELSE LET valueEndPos == getCurrPos(m3)
                    IN  Out(m3, Text(extract(valueStartPos + 1, valueEndPos - 1)))

\* parseAttributeName(): the while loop
RECURSIVE NameLoop(_)
NameLoop(m) ==
  IF getCurrChar(m) # NullChar /\ ~Contains(NameDelimiters, getCurrChar(m))
  THEN NameLoop(getNextChar(m))
  ELSE m

\* parseAttributeName()
parseAttributeName(m) ==
  LET startLoc == NewRef(m)
      m1 == NameLoop(getCurrLocation(m))
      endLoc == NewRef(m1)
      m2 == getCurrLocation(m1)
  IN  IF m2.heap[endLoc].pos > m2.heap[startLoc].pos
      THEN Out(m2, Text(toLowerCase(
                 extract(m2.heap[startLoc].pos, m2.heap[endLoc].pos))))
      ELSE Out(backtrack(m2, startLoc), Null)

\* the tag name condition with the upper-case range left out
IsLowerCaseCode(code) == code >= 97 /\ code <= 122

\* the tag name condition with the digits let in
IsLetterOrDigitCode(code) ==
  (code >= 48 /\ code <= 57) \/ (code >= 65 /\ code <= 90)
    \/ (code >= 97 /\ code <= 122)

\* parseHtmlTagName(): the loop condition on a character code
IsTagNameCode(code) ==
  (code >= 65 /\ code <= 90) \/ (code >= 97 /\ code <= 122)

\* parseHtmlTagName(): the while loop
RECURSIVE TagNameLoop(_)
TagNameLoop(m) ==
  IF IsTagNameCode(getCurrCharCode(m))
  THEN TagNameLoop(getNextCharCode(m))
  ELSE m

\* parseHtmlTagName()
parseHtmlTagName(m) ==
  LET startLoc == NewRef(m)
      m1 == TagNameLoop(getCurrLocation(m))
      endLoc == NewRef(m1)
      m2 == getCurrLocation(m1)
  IN  IF m2.heap[endLoc].pos > m2.heap[startLoc].pos
      THEN Out(m2, Text(toLowerCase(
                 extract(m2.heap[startLoc].pos, m2.heap[endLoc].pos))))
      ELSE Out(backtrack(m2, startLoc), Null)

\* parseHtmlElement(): the do-while loop over the attributes. It ends with
\* the attribute list (break) or with the thrown error. Each step takes what
\* the statements before it computed.
RECURSIVE AttributeLoop(_, _), AfterName(_, _), AfterNameSpace(_, _, _),
          AfterValue(_, _, _)

\* lines 277-278 without the call of parseWhiteSpace
AttributeLoopKeepsSpace(m, attributes) ==
  AfterName(parseAttributeName(m), attributes)

\* lines 277-278: skip white space, scan an attribute name
AttributeLoop(m, attributes) ==
  AfterName(parseAttributeName(parseWhiteSpace(m).m), attributes)

\* lines 280-282 with a break that first pushes the name it did not scan
AfterNamePushesEmpty(attributeName, attributes) ==
  IF Falsy(attributeName.r)
  THEN [m |-> attributeName.m,
        attributes |-> Append(attributes, [name |-> <<>>, value |-> Null]),
        thrown |-> FALSE]
  ELSE AfterNameSpace(parseWhiteSpace(attributeName.m).m,
                      attributeName.r.text, attributes)

\* lines 280-282: break without a name, else skip white space
AfterName(attributeName, attributes) ==
  IF Falsy(attributeName.r)
  THEN [m |-> attributeName.m, attributes |-> attributes, thrown |-> FALSE]
  ELSE AfterNameSpace(parseWhiteSpace(attributeName.m).m,
                      attributeName.r.text, attributes)

\* lines 283-295 without the test for '='
AfterNameSpaceIgnoresEquals(m, name, attributes) ==
  AttributeLoop(m, Append(attributes, [name |-> name, value |-> Null]))

\* lines 283-295 with the name put at the front of the list
AfterNameSpacePrepends(m, name, attributes) ==
  IF getCurrChar(m) = "="
  THEN AfterValue(parseAttributeValue(parseWhiteSpace(m).m), name, attributes)
  ELSE AttributeLoop(m, <<[name |-> name, value |-> Null]>> \o attributes)

\* lines 283-286 and 292-295: on '=' skip white space and scan a value,
\* else push the name with a null value
AfterNameSpace(m, name, attributes) ==
  IF getCurrChar(m) = "="
  THEN AfterValue(parseAttributeValue(parseWhiteSpace(m).m), name, attributes)
  ELSE AttributeLoop(m, Append(attributes, [name |-> name, value |-> Null]))

\* lines 287-295 with a break in place of the throw
AfterValueBreaks(attributeValue, name, attributes) ==
  IF Falsy(attributeValue.r)
  THEN [m |-> attributeValue.m, attributes |-> attributes, thrown |-> FALSE]
  ELSE AttributeLoop(attributeValue.m,
         Append(attributes, [name |-> name, value |-> attributeValue.r]))

\* lines 287-295: throw without a value, else push the name and the value
AfterValue(attributeValue, name, attributes) ==
  IF Falsy(attributeValue.r)
  THEN [m |-> attributeValue.m, attributes |-> attributes, thrown |-> TRUE]
  ELSE AttributeLoop(attributeValue.m,
         Append(attributes, [name |-> name, value |-> attributeValue.r]))

\* parseHtmlElement(), lines 298-304: the node, unless the loop threw
ElementAfterLoop(loop, startLoc, tagName) ==
  IF loop.thrown
  THEN Out(loop.m, Thrown)
  ELSE Out(getCurrLocation(loop.m),
           Node(startLoc, NewRef(loop.m), tagName, loop.attributes))

\* parseHtmlElement(), lines 266-296: no tag name is no match
ElementAfterTagName(tagName, startLoc) ==
  IF tagName.r.kind = "null"
  THEN Out(backtrack(tagName.m, startLoc), Null)
  ELSE ElementAfterLoop(AttributeLoop(tagName.m, <<>>), startLoc,
                        tagName.r.text)

\* parseHtmlElement(), lines 257-265: no '<' is no match
ElementAfterStart(m, startLoc) ==
  IF getCurrChar(m) # "<"
  THEN Out(backtrack(m, startLoc), Null)
  ELSE ElementAfterTagName(parseHtmlTagName(advance(m)), startLoc)

\* parseHtmlElement()
parseHtmlElement(m) == ElementAfterStart(getCurrLocation(m), NewRef(m))

\* parse()
parse(m) == parseHtmlElement(m)

\* ------------------------------------------------------------ the program
\* the cursor as the caller can observe it
Cursor(m) ==
  [pos |-> m.heap[m.location].pos, row |-> m.heap[m.location].row,
   col |-> m.heap[m.location].col, char |-> m.char]

\* the references of a sequence, without null and without repetition
RECURSIVE Distinct(_, _)
Distinct(refs, acc) ==
  IF refs = <<>> THEN acc
  ELSE IF Head(refs) = NullRef \/ \E i \in 1..Len(acc) : acc[i] = Head(refs)
       THEN Distinct(Tail(refs), acc)
       ELSE Distinct(Tail(refs), Append(acc, Head(refs)))

\* where a reference lands once only the objects in live are kept
Moved(live, ref) ==
  IF ref = NullRef THEN NullRef ELSE CHOOSE i \in 1..Len(live) : live[i] = ref

\* the end of a method call: the objects nothing refers to any more are
\* collected, and the call is recorded with the cursor it started from
Return(op, m, sv, svAt, r) ==
  LET live == Distinct(<<m.location, sv, r.start, r.end>>, <<>>)
  IN  /\ heap' = [i \in 1..Len(live) |-> m.heap[live[i]]]
      /\ location' = Moved(live, m.location)
      /\ char' = m.char
      /\ oob' = m.oob
      /\ saved' = Moved(live, sv)
      /\ savedAt' = svAt
      /\ call' = [op |-> op, pre |-> Cursor(Machine),
                  r |-> [r EXCEPT !.start = Moved(live, r.start),
                                  !.end = Moved(live, r.end)]]

\* new htmlParser(srcContent)
Init ==
  \E text \in SourceTexts :
    /\ srcContent = text
    /\ sourceChars = SourceChars(text)
    /\ heap = <<Loc(0, 1, 1)>>
    /\ location = 1
    /\ char = readChar([heap |-> <<Loc(0, 1, 1)>>, location |-> 1])
    /\ oob = readCharOob([heap |-> <<Loc(0, 1, 1)>>, location |-> 1])
    /\ saved = NullRef
    /\ savedAt = [pos |-> 0, row |-> 1, col |-> 1, char |-> NullChar]
    /\ call = [op |-> "constructor",
               pre |-> [pos |-> 0, row |-> 1, col |-> 1, char |-> NullChar],
               r |-> Void]

\* the caller calls advance()
Advance ==
  /\ Return("advance", advance(Machine), saved, savedAt, Void)
  /\ UNCHANGED <<srcContent, sourceChars>>

\* the caller calls getCurrLocation() and keeps what it returns
GetCurrLocation ==
  /\ Return("getCurrLocation", getCurrLocation(Machine), NewRef(Machine),
            Cursor(Machine), Void)
  /\ UNCHANGED <<srcContent, sourceChars>>

\* the caller calls backtrack() with the location it kept
Backtrack ==
  /\ saved # NullRef
  /\ Return("backtrack", backtrack(Machine, saved), saved, savedAt, Void)
  /\ UNCHANGED <<srcContent, sourceChars>>

\* a production or parse() returns out to the caller
Returned(op, out) == Return(op, out.m, saved, savedAt, out.r)

\* the caller calls a production
ParseWhiteSpace ==
  /\ Returned("parseWhiteSpace", parseWhiteSpace(Machine))
  /\ UNCHANGED <<srcContent, sourceChars>>

ParseAttributeValue ==
  /\ Returned("parseAttributeValue", parseAttributeValue(Machine))
  /\ UNCHANGED <<srcContent, sourceChars>>

ParseAttributeName ==
  /\ Returned("parseAttributeName", parseAttributeName(Machine))
  /\ UNCHANGED <<srcContent, sourceChars>>

ParseHtmlTagName ==
  /\ Returned("parseHtmlTagName", parseHtmlTagName(Machine))
  /\ UNCHANGED <<srcContent, sourceChars>>

ParseHtmlElement ==
  /\ Returned("parseHtmlElement", parseHtmlElement(Machine))
  /\ UNCHANGED <<srcContent, sourceChars>>

\* the caller calls parse()
Parse ==
  /\ Returned("parse", parse(Machine))
  /\ UNCHANGED <<srcContent, sourceChars>>

\* the caller keeps a location of the node it was just given, in place of
\* the location it kept before; at is the cursor when that location was
\* captured
Keep(ref, at) ==
  LET live == Distinct(<<location, ref, call.r.start, call.r.end>>, <<>>)
  IN  /\ heap' = [i \in 1..Len(live) |-> heap[live[i]]]
      /\ location' = Moved(live, location)
      /\ saved' = Moved(live, ref)
      /\ savedAt' = at
      /\ call' = [call EXCEPT !.r.start = Moved(live, call.r.start),
                              !.r.end = Moved(live, call.r.end)]
      /\ UNCHANGED <<srcContent, sourceChars, char, oob>>

\* the caller keeps node.start: it was captured where the call began
KeepNodeStart ==
  /\ call.r.kind = "node"
  /\ Keep(call.r.start, call.pre)

\* the caller keeps node.end: it was captured where the call ended, and
\* the cursor is still there
KeepNodeEnd ==
  /\ call.r.kind = "node"
  /\ Keep(call.r.end, Cursor(Machine))

Next ==
  \/ KeepNodeStart
  \/ KeepNodeEnd
  \/ Advance
  \/ GetCurrLocation
  \/ Backtrack
  \/ ParseWhiteSpace
  \/ ParseAttributeValue
  \/ ParseAttributeName
  \/ ParseHtmlTagName
  \/ ParseHtmlElement
  \/ Parse

Spec == Init /\ [][Next]_vars

\* ----------------------------------------------------------------- claims
\* the live cursor, the cursor before the last call, what the call returned
Now == Cursor(Machine)
Pre == call.pre
Ret == call.r

\* the productions
Productions ==
  {"parseWhiteSpace", "parseAttributeName", "parseAttributeValue",
   "parseHtmlTagName", "parseHtmlElement"}

\* the last call was the element parser, called directly or through parse()
ElementCall == call.op \in {"parseHtmlElement", "parse"}

\* the character at a 0-based index of the buffer
CharAt(i) == sourceChars[i + 1]

\* ASCII letters, and the lower-case form of a text of letters, as a table
Letters == {"A", "B", "X", "Z", "a", "b", "x", "z"}
LowerOf(c) ==
  CASE c = "A" -> "a" [] c = "B" -> "b" [] c = "X" -> "x" [] c = "Z" -> "z"
    [] OTHER -> c
Lowered(s) == [i \in 1..Len(s) |-> LowerOf(s[i])]

\* t is how the buffer starts
StartsWith(t) == Len(t) <= length /\ SubSeq(sourceChars, 1, Len(t)) = t

\* C1: a production that returns "no match" (null) leaves pos, row, col and
\* the cached current character as they were before the call.
C1_NoMatchRestoresCursor ==
  (call.op \in Productions \cup {"parse"} /\ Ret.kind = "null") => Now = Pre

\* C1 witness: parseHtmlElement consumed '<' away from the start of the
\* buffer, found no tag name and returned null.
C1_Witness ==
  /\ call.op = "parseHtmlElement"
  /\ Ret.kind = "null"
  /\ Pre.char = "<"
  /\ Pre.pos > 0
  /\ Pre.pos + 1 < length

\* C2: parse() on a text that starts with <tag name="value" returns a node
\* with the tag name and the attribute name lower-cased and the attribute
\* value exactly the text between the quotes.
C2_QuotedAttributeParsed ==
  \A t \in TagNames, n \in Words, v \in {<<"B">>} :
    (/\ call.op = "parse"
     /\ Pre.pos = 0
     /\ StartsWith(<<"<">> \o t \o <<SPACE>> \o n \o <<"=", QUOTE>> \o v
                     \o <<QUOTE>>))
    => /\ Ret.kind = "node"
       /\ Ret.tagName = Lowered(t)
       /\ Len(Ret.attributes) >= 1
       /\ Ret.attributes[1].name = Lowered(n)
       /\ Ret.attributes[1].value = Text(v)

\* the buffer is '<', a non-empty run of ASCII letters, '>'
IsBareTag ==
  /\ length >= 3
  /\ CharAt(0) = "<"
  /\ CharAt(length - 1) = ">"
  /\ \A i \in 1..(length - 2) : CharAt(i) \in Letters

\* C3: parse() from the initial cursor on '<' letters '>' returns a node
\* whose tagName is the letters lower-cased and whose attribute list is
\* empty.
C3_BareTagParsed ==
  (call.op = "parse" /\ Pre.pos = 0 /\ IsBareTag)
  => /\ Ret.kind = "node"
     /\ Ret.tagName = Lowered(SubSeq(sourceChars, 2, length - 1))
     /\ Ret.attributes = <<>>

\* C3 witness: parse() has returned from the start of <aB>.
C3_Witness ==
  /\ call.op = "parse"
  /\ Pre.pos = 0
  /\ sourceChars = <<"<", "a", "B", ">">>

\* C4: every advance() made while pos < length adds 1 to pos and moves the
\* line counters by the character left behind: a newline adds 1 to row and
\* sets col to 1, any other character adds 1 to col.
C4_AdvanceCountsEveryChar ==
  (call.op = "advance" /\ Pre.pos < length)
  => /\ Now.pos = Pre.pos + 1
     /\ Pre.char = LF => (Now.row = Pre.row + 1 /\ Now.col = 1)
     /\ Pre.char # LF => (Now.row = Pre.row /\ Now.col = Pre.col + 1)

\* C5: advance() at end of input changes nothing: pos stays length, row and
\* col stay, the current character stays null; and the buffer is never
\* indexed at or past length.
C5_AdvanceAtEndIsNoOp ==
  /\ (call.op = "advance" /\ Pre.pos = length)
     => (Now.pos = length /\ Now.row = Pre.row /\ Now.col = Pre.col
         /\ Now.char = NullChar)
  /\ ~oob

\* C5 witness: advance() was called at the end of a non-empty buffer.
C5_Witness == call.op = "advance" /\ Pre.pos = length /\ length > 0

\* C6: backtrack(snapshot) brings pos, row, col and the cached character
\* back to what they were when the snapshot was taken, whatever was called
\* in between.
C6_BacktrackRestoresSnapshot == call.op = "backtrack" => Now = savedAt

\* C6 witness: the cursor went from the snapshot, taken past the first
\* line, to the end of input and was then brought back.
C6_Witness ==
  /\ call.op = "backtrack"
  /\ Pre.pos = length
  /\ savedAt.pos < length
  /\ savedAt.row > 1

\* the index of the first double-quote after index p, or -1 when a newline
\* or the end of input comes first
RECURSIVE ClosingQuote(_)
ClosingQuote(i) ==
  IF i >= length \/ CharAt(i) = LF THEN -1
  ELSE IF CharAt(i) = QUOTE THEN i
  ELSE ClosingQuote(i + 1)

\* parseAttributeValue() was called on a double-quote that is closed on its
\* line
ClosedValueCall ==
  /\ call.op = "parseAttributeValue"
  /\ Pre.char = QUOTE
  /\ ClosingQuote(Pre.pos + 1) >= 0

\* C7: parseAttributeValue() on a quote that is closed before a newline or
\* the end of input returns exactly the characters between the two quotes.
C7_ValueIsTextBetweenQuotes ==
  ClosedValueCall
  => Ret = Text(SubSeq(sourceChars, Pre.pos + 2, ClosingQuote(Pre.pos + 1)))

\* C8: when parseAttributeValue() succeeds, pos is the index of the closing
\* quote plus 1.
C8_CursorPastClosingQuote ==
  (call.op = "parseAttributeValue" /\ Ret.kind = "text")
  => Now.pos = ClosingQuote(Pre.pos + 1) + 1

\* C9: parseAttributeValue() never throws; off a double-quote it returns
\* null without moving the cursor, and on a quote that a newline or the end
\* of input leaves unclosed it returns null with the cursor back on the
\* opening quote.
C9_ValueFailsSoft ==
  call.op = "parseAttributeValue"
  => /\ Ret.kind # "error"
     /\ Pre.char # QUOTE => (Ret = Null /\ Now = Pre)
     /\ (Pre.char = QUOTE /\ ClosingQuote(Pre.pos + 1) < 0)
        => (Ret = Null /\ Now = Pre)

\* C9 witness: the value scanner ran from an opening quote over a character
\* into a newline and returned.
C9_Witness ==
  /\ call.op = "parseAttributeValue"
  /\ Pre.char = QUOTE
  /\ Pre.pos + 2 < length
  /\ CharAt(Pre.pos + 1) = "a"
  /\ CharAt(Pre.pos + 2) = LF

\* the end (exclusive) of the run of letters that starts at index i
RECURSIVE LettersEnd(_)
LettersEnd(i) ==
  IF i < length /\ CharAt(i) \in Letters THEN LettersEnd(i + 1) ELSE i

\* the index of the first '=' at or after index i, or length
RECURSIVE FirstEquals(_)
FirstEquals(i) ==
  IF i < length /\ CharAt(i) # "=" THEN FirstEquals(i + 1) ELSE i

\* the first index at or after i that holds no white space, or length
RECURSIVE SkipSpace(_)
SkipSpace(i) ==
  IF i < length /\ CharAt(i) \in {SPACE, LF, TAB} THEN SkipSpace(i + 1) ELSE i

\* at index p: '<', a tag name, then nothing but whitespace and at least one
\* attribute name up to an '='
DanglingEquals(p) ==
  /\ p < length
  /\ CharAt(p) = "<"
  /\ LettersEnd(p + 1) > p + 1
  /\ LET t == LettersEnd(p + 1)
         e == FirstEquals(t)
     IN  /\ e < length
         /\ \A i \in t..(e - 1) : CharAt(i) \notin {APOS, QUOTE, "/", ">"}
         /\ \E i \in t..(e - 1) : CharAt(i) \notin {SPACE, LF, TAB}

\* a double-quoted value, closed on its line, follows the '=' at index e
\* after optional white space
QuotedValueAfter(e) ==
  LET q == SkipSpace(e + 1)
  IN  q < length /\ CharAt(q) = QUOTE /\ ClosingQuote(q + 1) >= 0

\* the '=' that ends the first run of attribute names after index p
EqualsAfter(p) == FirstEquals(LettersEnd(p + 1))

\* C10: parseHtmlElement ends in the thrown error, with the cursor off its
\* entry position, when an attribute name is followed (after optional
\* whitespace) by '=' and no double-quoted value follows it; a missing '<'
\* and a missing tag name return null instead.
C10_DanglingEqualsThrows ==
  ElementCall
  => /\ (DanglingEquals(Pre.pos) /\ ~QuotedValueAfter(EqualsAfter(Pre.pos)))
        => (Ret.kind = "error" /\ Now.pos # Pre.pos)
     /\ Pre.char # "<" => Ret.kind = "null"
     /\ (Pre.char = "<" /\ LettersEnd(Pre.pos + 1) = Pre.pos + 1)
        => Ret.kind = "null"

\* C10 witness: parseHtmlElement has thrown at the '=' of <a b=x>.
C10_Witness ==
  /\ call.op = "parseHtmlElement"
  /\ Ret.kind = "error"
  /\ Pre.pos = 0
  /\ DanglingEquals(0)
  /\ ~QuotedValueAfter(EqualsAfter(0))
  /\ Now.pos = EqualsAfter(0)
  /\ sourceChars = <<"<", "a", SPACE, "b", "=", "x", ">">>

\* the text with every line ending written as one LF: an LF right after a CR
\* is dropped, and every CR becomes an LF
RECURSIVE LfOnlyFrom(_, _)
LfOnlyFrom(t, i) ==
  IF i > Len(t) THEN <<>>
  ELSE IF t[i] = LF /\ i > 1 /\ t[i - 1] = CR THEN LfOnlyFrom(t, i + 1)
  ELSE <<(IF t[i] = CR THEN LF ELSE t[i])>> \o LfOnlyFrom(t, i + 1)
LfOnly(t) == LfOnlyFrom(t, 1)

\* the row advance() reaches at the end of a text: one more than the
\* newlines it leaves behind before the last character
RowAtEnd(t) == 1 + Cardinality({i \in 1..(Len(t) - 1) : t[i] = LF})

\* C11: the buffer holds no CR: it is the source text with every CRLF pair
\* and every lone CR written as one LF and all else kept in order, and the
\* row at the end of the buffer is the row at the end of that LF-only text.
C11_LineEndingsNormalised ==
  /\ \A i \in 1..length : sourceChars[i] # CR
  /\ sourceChars = LfOnly(srcContent)
  /\ Now.pos = length => Now.row = RowAtEnd(LfOnly(srcContent))

\* C11 witness: advance() reached the end of the buffer built from a text
\* with a lone CR and a CRLF pair.
C11_Witness ==
  /\ srcContent = <<CR, CR, LF>>
  /\ sourceChars = <<LF, LF>>
  /\ Now.pos = length
  /\ call.op = "advance"

\* the characters that end an attribute name
Delimiters == {SPACE, LF, TAB, APOS, QUOTE, "=", "/", ">"}

\* the end (exclusive) of the run of non-delimiters that starts at index i
RECURSIVE NameEnd(_)
NameEnd(i) ==
  IF i < length /\ CharAt(i) \notin Delimiters THEN NameEnd(i + 1) ELSE i

\* C12: parseAttributeName() takes the longest run of non-delimiters at the
\* cursor, up to the first delimiter or the end of input; a non-empty run is
\* returned lower-cased with pos moved by its length, an empty one is null.
C12_NameIsMaximalRun ==
  call.op = "parseAttributeName"
  => IF NameEnd(Pre.pos) > Pre.pos
     THEN /\ Ret = Text(Lowered(SubSeq(sourceChars, Pre.pos + 1,
                                       NameEnd(Pre.pos))))
          /\ Now.pos = NameEnd(Pre.pos)
     ELSE Ret = Null /\ Now.pos = Pre.pos

\* C12 witness: parseAttributeName() ran from the tag name of <a/> and
\* stopped at the '/'.
C12_Witness ==
  /\ call.op = "parseAttributeName"
  /\ sourceChars = <<"<", "a", "/", ">">>
  /\ Pre.pos = 1
  /\ Now.pos = 2

\* C13: parseHtmlTagName() takes the longest run of ASCII letters at the
\* cursor, up to the first other character or the end of input; a non-empty
\* run is returned lower-cased, an empty one is null. In <a1> the name is a.
C13_TagNameIsLetterRun ==
  call.op = "parseHtmlTagName"
  => IF LettersEnd(Pre.pos) > Pre.pos
     THEN /\ Ret = Text(Lowered(SubSeq(sourceChars, Pre.pos + 1,
                                       LettersEnd(Pre.pos))))
          /\ Now.pos = LettersEnd(Pre.pos)
     ELSE Ret = Null /\ Now.pos = Pre.pos

\* C13 witness: parseHtmlTagName() ran from the a of <a1> and stopped at
\* the digit.
C13_Witness ==
  /\ call.op = "parseHtmlTagName"
  /\ sourceChars = <<"<", "a", "1", ">">>
  /\ Pre.pos = 1
  /\ Ret = Text(<<"a">>)

\* C14: pos stays within 0..length, and the cached character is the one at
\* pos, or null exactly at the end of input.
C14_CharFollowsPos ==
  /\ Now.pos >= 0
  /\ Now.pos <= length
  /\ Now.pos < length => Now.char = CharAt(Now.pos)
  /\ (Now.char = NullChar) <=> (Now.pos = length)

\* C14 witness: backtrack() brought the cursor from the end of input back
\* onto a character.
C14_Witness ==
  /\ call.op = "backtrack"
  /\ Pre.pos = length
  /\ Pre.char = NullChar
  /\ Now.pos < length

\* the row and the column of index p, counted from the buffer
RowOf(p) == 1 + Cardinality({i \in 0..(p - 1) : CharAt(i) = LF})
ColOf(p) ==
  1 + Cardinality({i \in 0..(p - 1) :
                    \A j \in i..(p - 1) : CharAt(j) # LF})

\* a Location object has the row and the column of its pos
Counted(loc) == loc.row = RowOf(loc.pos) /\ loc.col = ColOf(loc.pos)

\* C15: row is 1 plus the newlines before pos and col is 1 plus the
\* characters after the last of them, for the live cursor and for the start
\* and end of every node parseHtmlElement returns.
C15_CountersFollowPos ==
  /\ Counted(Now)
  /\ Ret.kind = "node" => (Counted(heap[Ret.start]) /\ Counted(heap[Ret.end]))

\* C16: a Location the caller was given (by getCurrLocation(), or as the
\* start or end of a node) keeps the pos, row and col it was captured with,
\* whatever is called afterwards.
C16_SnapshotsKeepValue ==
  /\ saved # NullRef
     => heap[saved] = Loc(savedAt.pos, savedAt.row, savedAt.col)
  /\ Ret.kind = "node" => heap[Ret.start] = Loc(Pre.pos, Pre.row, Pre.col)

\* C16 witness: with a kept location on the last character, advance() went
\* from that very position to the end of input.
C16_Witness ==
  /\ call.op = "advance"
  /\ saved # NullRef
  /\ savedAt.pos = length - 1
  /\ Pre.pos = savedAt.pos
  /\ Now.pos = length

\* at index p: '<' and a tag name
OpensTag(p) ==
  p < length /\ CharAt(p) = "<" /\ LettersEnd(p + 1) > p + 1

\* the first index at or after i that holds a quote, '=', '/' or '>', or
\* length
RECURSIVE SegEnd(_)
SegEnd(i) ==
  IF i < length /\ CharAt(i) \notin {APOS, QUOTE, "=", "/", ">"}
  THEN SegEnd(i + 1)
  ELSE i

\* the indices where a white-space-separated word starts between the tag
\* name of the tag at p and the first quote, '=', '/' or '>'
WordStarts(p) ==
  LET t == LettersEnd(p + 1)
  IN  {i \in t..(SegEnd(t) - 1) :
         /\ CharAt(i) \notin {SPACE, LF, TAB}
         /\ i = t \/ CharAt(i - 1) \in {SPACE, LF, TAB}}

\* those words in source order, lower-cased, each with no value
ValuelessNames(p) ==
  [k \in 1..Cardinality(WordStarts(p)) |->
     LET i == CHOOSE i \in WordStarts(p) :
                Cardinality({j \in WordStarts(p) : j < i}) = k - 1
     IN  [name |-> Lowered(SubSeq(sourceChars, i + 1, NameEnd(i))),
          value |-> Null]]

\* C17: for an opening tag in which no attribute name is followed by '=',
\* parseHtmlElement returns a node with the lower-cased tag name and one
\* attribute per white-space-separated name, in source order, lower-cased,
\* with value null.
C17_ValuelessAttributesInOrder ==
  (ElementCall /\ OpensTag(Pre.pos) /\ ~DanglingEquals(Pre.pos))
  => /\ Ret.kind = "node"
     /\ Ret.tagName = Lowered(SubSeq(sourceChars, Pre.pos + 2,
                                     LettersEnd(Pre.pos + 1)))
     /\ Ret.attributes = ValuelessNames(Pre.pos)

\* C17 witness: the tag with three names and no '=' gave tag x with
\* attributes a, b, x.
C17_Witness ==
  /\ ElementCall
  /\ srcContent \in DemonstrationTexts
  /\ Pre.pos = 0
  /\ Ret.kind = "node"
  /\ Ret.tagName = <<"x">>
  /\ Ret.attributes = <<[name |-> <<"a">>, value |-> Null],
                        [name |-> <<"b">>, value |-> Null],
                        [name |-> <<"x">>, value |-> Null]>>

\* C18 as stated: a returned node ends at the live cursor, and the current
\* character there is none or one of '>', '/', the single quote and the
\* double quote (so never '=').
C18_StopsBeforeClosingChar ==
  (ElementCall /\ Ret.kind = "node")
  => /\ heap[Ret.end].pos = Now.pos
     /\ Now.char \in {NullChar, ">", "/", APOS, QUOTE}

\* C18, amended: a returned node ends at the live cursor, and the current
\* character there is none or one of '>', '/', the single quote, the double
\* quote and '='; it is '=' only when no attribute name was scanned, and it
\* is never white space or a character that could start an attribute name.
C18_StopsBeforeDelimiter ==
  (ElementCall /\ Ret.kind = "node")
  => /\ heap[Ret.end].pos = Now.pos
     /\ Now.char \in {NullChar, ">", "/", APOS, QUOTE, "="}
     /\ Now.char = "=" => Ret.attributes = <<>>

\* C18 witness: parseHtmlElement returned a node for <a=> with the cursor
\* on the '='.
C18_Witness ==
  /\ ElementCall
  /\ Ret.kind = "node"
  /\ sourceChars = <<"<", "a", "=", ">">>
  /\ Now.pos = 2
  /\ Now.char = "="

\* C19: no returned node has an attribute with a value, and an attribute
\* name followed (after optional white space) by '=' ends the call in the
\* thrown error, whatever follows the '='.
C19_NoAttributeHasValue ==
  ElementCall
  => /\ Ret.kind = "node"
        => \A k \in 1..Len(Ret.attributes) : Ret.attributes[k].value = Null
     /\ DanglingEquals(Pre.pos) => Ret.kind = "error"

\* C19 witness: parseHtmlElement has thrown on a tag whose attribute has a
\* well-formed double-quoted value.
C19_Witness ==
  /\ ElementCall
  /\ DanglingEquals(Pre.pos)
  /\ QuotedValueAfter(EqualsAfter(Pre.pos))
  /\ Ret.kind = "error"

\* C20: the outcome of parseHtmlElement, from every buffer and every
\* cursor, is a node, "no match" or the thrown error, and it ends inside the
\* buffer at or after its entry position; every iteration of the attribute
\* loop that did not exit pushed one attribute whose name took at least one
\* character of its own, so a node has at most as many attributes as the
\* characters the loop consumed, and at most length - pos.
C20_ElementCallEndsWithinBuffer ==
  ElementCall
  => /\ Ret.kind \in {"node", "null", "error"}
     /\ Pre.pos <= Now.pos
     /\ Now.pos <= length
     /\ Ret.kind = "node"
        => /\ \A k \in 1..Len(Ret.attributes) :
                Len(Ret.attributes[k].name) >= 1
           /\ Len(Ret.attributes) <= Now.pos - LettersEnd(Pre.pos + 1)
           /\ Len(Ret.attributes) <= length - Pre.pos

\* C20 witness: the attribute loop ran three iterations that did not exit
\* and then stopped on the '>' at index 8.
C20_Witness ==
  /\ ElementCall
  /\ Ret.kind = "node"
  /\ Len(Ret.attributes) = 3
  /\ Pre.pos = 0
  /\ Now.pos = 8
  /\ Now.char = ">"

====
